---- MODULE Spec2Model ----
(***************************************************************************)
(* Model of the quantitative core of stock_portfolio_app:                  *)
(*   utils/portfolio.py    Portfolio, risk decomposition, correlation      *)
(*   utils/risk_metrics.py returns engine, VaR / CVaR / volatility / MDD   *)
(*   utils/simulation.py   Monte Carlo simulators and their statistics     *)
(*                                                                         *)
(* Floating-point numbers are modelled as exact rationals <<n, d>> in      *)
(* lowest terms with d > 0; the IEEE special values the code can produce   *)
(* are kept: NaN is <<0, 0>>, +inf is <<1, 0>>, -inf is <<-1, 0>>.         *)
(* Rounding error is not modelled.                                         *)
(***************************************************************************)
EXTENDS Integers, Sequences, FiniteSets, TLC

VARIABLES
    holdings,          \* Portfolio.holdings: sequence of holding records
    current_prices,    \* quotes map handed to the last valuation call
    prices,            \* price matrix: sequence of rows, one price per asset
    weights,           \* weight vector handed to the risk/simulation functions
    returns,           \* return series handed to the risk metrics
    confidence_level,  \* confidence handed to calculate_var / calculate_cvar
    simulated_values,  \* array handed to calculate_simulation_statistics
    current_value,     \* current portfolio value handed to the statistics
    numpy_build,       \* where numpy builds differ (percentile of no data, SVD of a
                       \* NaN matrix): "nan" returns NaN, "raise" raises
    np_random,         \* state of numpy's process-wide generator (np.random)
    memo,              \* history: the first simulation call made and its result
    op,                \* name of the last operation applied
    args,              \* the arguments of the last call, where the model records them
    out,               \* what the last operation returned or raised
    page,              \* the page of the app whose script ran last
    analysis,          \* st.session_state.analysis
    calls,             \* per session thread: the simulation call it is inside
    exported,          \* the list object under 'holdings' of the mapping to_dict returned
    restored,          \* the list object that is the holdings of the from_dict portfolio
    fresh              \* contents of the list from_dict creates for a missing key

\* the state kept by the callers of the library: the app's session, its
\* threads, and the objects to_dict and from_dict handed out
callers == <<page, analysis, calls, exported, restored, fresh>>

vars == <<holdings, current_prices, prices, weights, returns, confidence_level,
          simulated_values, current_value, numpy_build, np_random, memo, op, args, out,
          callers>>

(***************************************************************************)
(* Bounds of the model.                                                    *)
(***************************************************************************)
MaxHoldings == 2
MaxShares == 2
MaxRows == 4
WeightDen == 2
MaxLen == 3
ConfDen == 4
MaxSims == 3
MaxHorizon == 2
MaxPaths == 2

Symbols == {"AAA", "BBB"}

\* buy prices per share a holding is added with, 0 for shares received free
BuyPriceLevels == {0, 1}

\* current prices per share, 0 for a share that has become worthless
QuoteLevels == {0, 1, 2}

\* a price matrix has at most one column per symbol
MaxAssets == Cardinality(Symbols)

\* daily returns a return series is filled with
ReturnLevels == {<<-1, 2>>, <<-1, 4>>, <<0, 1>>, <<1, 2>>}

\* portfolio values in currency units, that of a net short position included
ValueLevels == {<<-100, 1>>, <<0, 1>>, <<100, 1>>}

\* simulated terminal portfolio values
SimLevels == {<<50, 1>>, <<100, 1>>, <<150, 1>>}

\* states of the process-wide generator
RngStates == 0..7

\* seeds handed to the simulators (42 is the default)
Seeds == {42, 7}

\* closing prices a price matrix is filled with
PriceLevels == {1, 2}

(***************************************************************************)
(* Floating-point values as exact rationals.                               *)
(***************************************************************************)
NaN == <<0, 0>>
PosInf == <<1, 0>>
NegInf == <<-1, 0>>

Abs(n) == IF n < 0 THEN -n ELSE n

Sign(n) == IF n < 0 THEN -1 ELSE IF n > 0 THEN 1 ELSE 0

RECURSIVE GCD(_, _)
GCD(a, b) == IF b = 0 THEN a ELSE GCD(b, a % b)

\* n / d as a float: a finite value in lowest terms, or inf / NaN when d = 0
Norm(n, d) ==
    IF d = 0 THEN <<Sign(n), 0>>
    ELSE LET g == GCD(Abs(n), Abs(d))
             s == IF d < 0 THEN -1 ELSE 1
         IN  <<(s * n) \div g, (s * d) \div g>>

R(n) == <<n, 1>>

IsNaN(x) == x = NaN
IsFinite(x) == x[2] # 0

RNeg(x) == <<-x[1], x[2]>>

RAdd(x, y) ==
    IF IsFinite(x) /\ IsFinite(y) THEN Norm(x[1] * y[2] + y[1] * x[2], x[2] * y[2])
    ELSE IF IsNaN(x) \/ IsNaN(y) THEN NaN
    ELSE IF IsFinite(x) THEN y
    ELSE IF IsFinite(y) THEN x
    ELSE IF x = y THEN x ELSE NaN

RSub(x, y) == RAdd(x, RNeg(y))

RMul(x, y) ==
    IF IsFinite(x) /\ IsFinite(y) THEN Norm(x[1] * y[1], x[2] * y[2])
    ELSE IF IsNaN(x) \/ IsNaN(y) THEN NaN
    ELSE <<Sign(x[1]) * Sign(y[1]), 0>>

\* numpy float division: x / 0 is +-inf for x # 0 and NaN for 0 / 0
RDiv(x, y) ==
    IF IsFinite(x) /\ IsFinite(y) THEN Norm(x[1] * y[2], x[2] * y[1])
    ELSE IF IsNaN(x) \/ IsNaN(y) THEN NaN
    ELSE IF IsFinite(x) THEN R(0)
    ELSE IF IsFinite(y) THEN <<x[1] * (IF y[1] < 0 THEN -1 ELSE 1), 0>>
    ELSE NaN

\* IEEE comparisons: every comparison with NaN is false
RLe(x, y) ==
    /\ ~IsNaN(x) /\ ~IsNaN(y)
    /\ IF IsFinite(x) /\ IsFinite(y) THEN x[1] * y[2] <= y[1] * x[2]
       ELSE IF IsFinite(x) THEN y = PosInf
       ELSE IF IsFinite(y) THEN x = NegInf
       ELSE x = NegInf \/ y = PosInf

RLt(x, y) == RLe(x, y) /\ x # y

RAbs(x) == <<Abs(x[1]), x[2]>>

RECURSIVE RSum(_)
RSum(s) == IF s = <<>> THEN R(0) ELSE RAdd(Head(s), RSum(Tail(s)))

RECURSIVE RProd(_)
RProd(s) == IF s = <<>> THEN R(1) ELSE RMul(Head(s), RProd(Tail(s)))

\* Square roots are kept exact: <<n, d, 2>> is sign(n) * sqrt(|n| / d), for a
\* finite v = n / d; the root of NaN is NaN.
Root(v) == IF IsFinite(v) THEN <<v[1], v[2], 2>> ELSE v

\* a value returned, or an exception raised
Ok(v) == [kind |-> "ok", value |-> v]
Raised(e) == [kind |-> "raised", error |-> e]

(***************************************************************************)
(* utils/portfolio.py: class Portfolio                                     *)
(***************************************************************************)
\* faulty variant: the invested value is the number of shares
MutHoldingInvestsShares(symbol, shares, buy_price) ==
    [symbol |-> symbol, shares |-> shares, buy_price |-> buy_price,
     invested_value |-> shares]

Holding(symbol, shares, buy_price) ==
    [symbol |-> symbol, shares |-> shares, buy_price |-> buy_price,
     invested_value |-> shares * buy_price]

\* the loop of calculate_current_value over hs, started from total_value
RECURSIVE CurrentValueLoop(_, _, _)
CurrentValueLoop(hs, cp, total_value) ==
    IF hs = <<>> THEN total_value
    ELSE IF Head(hs).symbol \in DOMAIN cp
         THEN CurrentValueLoop(Tail(hs), cp, total_value + Head(hs).shares * cp[Head(hs).symbol])
         ELSE CurrentValueLoop(Tail(hs), cp, total_value)

\* faulty variant: a holding without a quote is valued at a price of 1
MutCurrentValueAllHoldings(hs, cp) ==
    CurrentValueLoop(hs, [s \in Symbols |-> IF s \in DOMAIN cp THEN cp[s] ELSE 1], 0)

calculate_current_value(hs, cp) == CurrentValueLoop(hs, cp, 0)

\* faulty variant: weights by share count instead of market value
MutWeightsByShares(hs, cp) ==
    LET total_value == calculate_current_value(hs, cp)
        total_shares == CurrentValueLoop(hs, [s \in DOMAIN cp |-> 1], 0)
    IN  IF total_value = 0 THEN [i \in 1..Len(hs) |-> R(0)]
        ELSE [i \in 1..Len(hs) |->
                IF hs[i].symbol \in DOMAIN cp
                THEN Norm(hs[i].shares, total_shares)
                ELSE R(0)]

\* faulty variant: the total also counts the holdings without a quote, at a
\* price of 1
MutWeightsTotalOfAllHoldings(hs, cp) ==
    LET total_value == calculate_current_value(hs, cp)
        total == MutCurrentValueAllHoldings(hs, cp)
    IN  IF total_value = 0 THEN [i \in 1..Len(hs) |-> R(0)]
        ELSE [i \in 1..Len(hs) |->
                IF hs[i].symbol \in DOMAIN cp
                THEN Norm(hs[i].shares * cp[hs[i].symbol], total)
                ELSE R(0)]

calculate_weights(hs, cp) ==
    LET total_value == calculate_current_value(hs, cp)
    IN  IF total_value = 0 THEN [i \in 1..Len(hs) |-> R(0)]
        ELSE [i \in 1..Len(hs) |->
                IF hs[i].symbol \in DOMAIN cp
                THEN Norm(hs[i].shares * cp[hs[i].symbol], total_value)
                ELSE R(0)]

get_symbols(hs) == [i \in 1..Len(hs) |-> hs[i].symbol]

is_empty(hs) == Len(hs) = 0

get_holding_count(hs) == Len(hs)

\* Portfolio.to_dict: the mapping with the holdings under 'holdings'
to_dict(hs) == [holdings |-> hs]

\* faulty variant: the holdings are restored in reverse order
MutFromDictReversed(data) ==
    IF "holdings" \in DOMAIN data
    THEN [i \in 1..Len(data.holdings) |-> data.holdings[Len(data.holdings) + 1 - i]]
    ELSE <<>>

\* Portfolio.from_dict: the holdings of the portfolio it returns,
\* data.get('holdings', [])
from_dict(data) == IF "holdings" \in DOMAIN data THEN data.holdings ELSE <<>>

\* faulty variant: the weight and the percentage gain are divided out
\* whatever the total value and the invested value are
MutAllocationUnguarded(hs, cp) ==
    LET total_value == calculate_current_value(hs, cp)
        quoted == SelectSeq(hs, LAMBDA h : h.symbol \in DOMAIN cp)
        Row(h) ==
            LET value == h.shares * cp[h.symbol]
            IN  [Symbol |-> h.symbol, Shares |-> h.shares, BuyPrice |-> h.buy_price,
                 CurrentPrice |-> cp[h.symbol], Invested |-> h.invested_value,
                 CurrentValue |-> value,
                 WeightPct |-> RMul(Norm(value, total_value), R(100)),
                 GainLoss |-> value - h.invested_value,
                 GainLossPct |-> RMul(Norm(value - h.invested_value, h.invested_value), R(100))]
    IN  Ok([r \in 1..Len(quoted) |-> Row(quoted[r])])

\* the rows of the DataFrame, one per holding whose symbol has a quote
get_allocation_table(hs, cp) ==
    LET total_value == calculate_current_value(hs, cp)
        quoted == SelectSeq(hs, LAMBDA h : h.symbol \in DOMAIN cp)
        Row(h) ==
            LET current_price == cp[h.symbol]
                value == h.shares * current_price
                invested == h.invested_value
                weight == IF total_value > 0 THEN Norm(value, total_value) ELSE R(0)
                gain_loss == value - invested
                gain_loss_pct == IF invested > 0
                                 THEN RMul(Norm(gain_loss, invested), R(100))
                                 ELSE R(0)
            IN  [Symbol |-> h.symbol, Shares |-> h.shares, BuyPrice |-> h.buy_price,
                 CurrentPrice |-> current_price, Invested |-> invested,
                 CurrentValue |-> value, WeightPct |-> RMul(weight, R(100)),
                 GainLoss |-> gain_loss, GainLossPct |-> gain_loss_pct]
    IN  Ok([r \in 1..Len(quoted) |-> Row(quoted[r])])

(***************************************************************************)
(* Returns engine and linear algebra (pandas / numpy calls of the code).   *)
(* A matrix is a sequence of rows; a row is a sequence of floats.          *)
(***************************************************************************)
\* the array with the elements of f, every element evaluated once
Array(f) == f \o <<>>

NCols(M) == IF M = <<>> THEN 0 ELSE Len(M[1])

Col(M, j) == Array([t \in 1..Len(M) |-> M[t][j]])

\* DataFrame.pct_change(): p_t / p_(t-1) - 1, the first row is NaN
pct_change(P) ==
    Array([t \in 1..Len(P) |->
        Array([j \in 1..Len(P[t]) |->
            IF t = 1 THEN NaN ELSE RSub(RDiv(R(P[t][j]), R(P[t - 1][j])), R(1))])])

HasNaN(row) == \E j \in 1..Len(row) : IsNaN(row[j])

\* DataFrame.dropna(): drop every row holding a NaN
dropna(M) == SelectSeq(M, LAMBDA row : ~HasNaN(row))

\* returns = prices.pct_change().dropna()
Returns(P) == dropna(pct_change(P))

\* mean of a series; the mean of an empty series is NaN
Mean(s) == RDiv(RSum(s), R(Len(s)))

Deviations(s) ==
    LET m == Mean(s) IN Array([t \in 1..Len(s) |-> RSub(s[t], m)])

\* sum of the products of the deviations of two series from their means
CoMoment(x, y) ==
    LET dx == Deviations(x)
        dy == Deviations(y)
    IN  RSum(Array([t \in 1..Len(x) |-> RMul(dx[t], dy[t])]))

\* np.cov with ddof = 1: a factor nobs - 1 that is <= 0 is replaced by 0, and
\* the co-moments are multiplied by 1 / factor
Covariance(x, y) ==
    LET fact == IF Len(x) - 1 <= 0 THEN 0 ELSE Len(x) - 1
    IN  RMul(CoMoment(x, y), RDiv(R(1), R(fact)))

\* DataFrame.cov().values of a return matrix with n columns
cov(M, n) ==
    LET cols == Array([i \in 1..n |-> Col(M, i)])
    IN  Array([i \in 1..n |-> Array([j \in 1..n |-> Covariance(cols[i], cols[j])])])

\* np.dot of two vectors of equal length
Dot(u, v) == RSum(Array([i \in 1..Len(u) |-> RMul(u[i], v[i])]))

\* np.dot of a matrix and a vector
MatVec(S, w) == Array([i \in 1..Len(S) |-> Dot(S[i], w)])

(***************************************************************************)
(* utils/portfolio.py: risk decomposition and correlation                  *)
(***************************************************************************)
\* portfolio_variance = np.dot(weights, np.dot(cov_matrix, weights))
PortfolioVariance(cov_matrix, w) == Dot(w, MatVec(cov_matrix, w))

portfolio_variance(P, w) == PortfolioVariance(cov(Returns(P), NCols(P)), w)

\* faulty variant: the covariance terms between assets are left out
MutRiskContribOwnVarianceOnly(P, w) ==
    LET cov_matrix == cov(Returns(P), NCols(P))
        variance == PortfolioVariance(cov_matrix, w)
    IN  IF Len(w) # NCols(P) THEN Raised("ValueError")
        ELSE Ok(Array([i \in 1..Len(w) |->
                    RMul(RDiv(RMul(w[i], RMul(cov_matrix[i][i], w[i])), variance), R(100))]))

\* np.dot raises ValueError when the shapes are not aligned
\* faulty variant: a weight vector of the wrong length is cut or padded
\* with zeros to the number of columns instead of being refused
MutRiskContribFitsWeights(P, w) ==
    LET n == NCols(P)
        fitted == Array([i \in 1..n |-> IF i <= Len(w) THEN w[i] ELSE R(0)])
        cov_matrix == cov(Returns(P), n)
        variance == PortfolioVariance(cov_matrix, fitted)
        marginal_contrib == MatVec(cov_matrix, fitted)
    IN  Ok(Array([i \in 1..n |->
            RMul(RDiv(RMul(fitted[i], marginal_contrib[i]), variance), R(100))]))

calculate_risk_contribution(P, w) ==
    LET cov_matrix == cov(Returns(P), NCols(P))
        variance == PortfolioVariance(cov_matrix, w)
        marginal_contrib == MatVec(cov_matrix, w)
        risk_contrib == Array([i \in 1..Len(w) |-> RMul(w[i], marginal_contrib[i])])
    IN  IF Len(w) # NCols(P) THEN Raised("ValueError")
        ELSE Ok(Array([i \in 1..Len(w) |-> RMul(RDiv(risk_contrib[i], variance), R(100))]))

\* A Pearson correlation is covxy / sqrt(ssqdx * ssqdy); pandas returns NaN
\* when the divisor is 0.
One == Root(R(1))

Pearson(x, y) ==
    LET covxy == CoMoment(x, y)
        divisor2 == RMul(CoMoment(x, x), CoMoment(y, y))
    IN  IF Len(x) < 1 \/ ~IsFinite(divisor2) \/ divisor2 = R(0) THEN NaN
        ELSE Root(RMul(R(Sign(covxy[1])), RDiv(RMul(covxy, covxy), divisor2)))

\* returns.corr()
calculate_correlation_matrix(P) ==
    LET r == Returns(P)
        n == NCols(P)
        cols == Array([i \in 1..n |-> Col(r, i)])
    IN  Ok(Array([i \in 1..n |-> Array([j \in 1..n |-> Pearson(cols[i], cols[j])])]))

(***************************************************************************)
(* utils/risk_metrics.py                                                   *)
(***************************************************************************)
\* (returns * weights).sum(axis=1); the product raises ValueError when the
\* weights do not match the columns
calculate_portfolio_returns(P, w) ==
    LET r == Returns(P)
    IN  IF Len(w) # NCols(P) THEN Raised("ValueError")
        ELSE Ok(Array([t \in 1..Len(r) |-> Dot(r[t], w)]))

\* a sorted copy of the array a (np.percentile partitions a copy)
RECURSIVE Insert(_, _)
Insert(x, sorted) ==
    IF sorted = <<>> THEN <<x>>
    ELSE IF RLe(x, Head(sorted)) THEN <<x>> \o sorted
    ELSE <<Head(sorted)>> \o Insert(x, Tail(sorted))

RECURSIVE Sort(_)
Sort(a) == IF a = <<>> THEN <<>> ELSE Insert(Head(a), Sort(Tail(a)))

\* floor of a finite float
Floor(x) == x[1] \div x[2]

\* np.percentile(a, q), method "linear": the value at the virtual index
\* q / 100 * (n - 1) of the sorted array, interpolated between its neighbours.
\* q outside [0, 100] raises ValueError; numpy builds differ on an empty
\* array: NaN, or IndexError.
percentile(a, q) ==
    LET sorted == Sort(a)
        index == RMul(RDiv(q, R(100)), R(Len(a) - 1))
        previous == Floor(index) + 1
        next == IF previous < Len(a) THEN previous + 1 ELSE previous
        gamma == RSub(index, R(Floor(index)))
    IN  IF ~(RLe(R(0), q) /\ RLe(q, R(100))) THEN Raised("ValueError")
        ELSE IF Len(a) = 0
             THEN (IF numpy_build = "nan" THEN Ok(NaN) ELSE Raised("IndexError"))
        ELSE Ok(RAdd(sorted[previous],
                     RMul(RSub(sorted[next], sorted[previous]), gamma)))

calculate_var(r, c) == percentile(r, RMul(RSub(R(1), c), R(100)))

\* faulty variant: the mean is taken over the returns above the threshold
MutCvarUpperTail(r, c) ==
    LET var == calculate_var(r, c)
    IN  IF var.kind = "raised" THEN var
        ELSE Ok(Mean(SelectSeq(r, LAMBDA x : RLe(var.value, x))))

\* returns[returns <= var].mean(); an exception of calculate_var propagates
calculate_cvar(r, c) ==
    LET var == calculate_var(r, c)
    IN  IF var.kind = "raised" THEN var
        ELSE Ok(Mean(SelectSeq(r, LAMBDA x : RLe(x, var.value))))

\* Series.std(), ddof = 1: NaN for fewer than two observations
Std(s) == Root(Covariance(s, s))

\* vol * np.sqrt(252) = sqrt(252 * variance)
calculate_volatility(r, annualize) ==
    IF annualize THEN Ok(Root(RMul(Covariance(r, r), R(252)))) ELSE Ok(Std(r))

\* (1 + returns).cumprod()
RECURSIVE CumProd(_, _)
CumProd(r, start) ==
    IF r = <<>> THEN <<>>
    ELSE LET c == RMul(start, RAdd(R(1), Head(r))) IN <<c>> \o CumProd(Tail(r), c)

RMax(x, y) == IF RLe(x, y) THEN y ELSE x
RMin(x, y) == IF RLe(x, y) THEN x ELSE y

\* cumulative.expanding().max()
RECURSIVE ExpandingMax(_)
ExpandingMax(s) ==
    IF Len(s) <= 1 THEN s
    ELSE LET before == ExpandingMax(SubSeq(s, 1, Len(s) - 1))
         IN  Append(before, RMax(before[Len(before)], s[Len(s)]))

\* Series.min() skips NaN; the minimum of no data is NaN
RECURSIVE SeriesMin(_)
SeriesMin(s) ==
    IF s = <<>> THEN NaN
    ELSE LET rest == SeriesMin(Tail(s))
         IN  IF IsNaN(Head(s)) THEN rest
             ELSE IF IsNaN(rest) THEN Head(s)
             ELSE RMin(Head(s), rest)

calculate_max_drawdown(r) ==
    LET cumulative == CumProd(r, R(1))
        running_max == ExpandingMax(cumulative)
        drawdown == Array([t \in 1..Len(r) |->
                        RDiv(RSub(cumulative[t], running_max[t]), running_max[t])])
    IN  Ok(SeriesMin(drawdown))

\* faulty variant: the signed product is returned
MutValueAtRiskSigned(value, r, c) ==
    LET var_return == calculate_var(r, c)
    IN  IF var_return.kind = "raised" THEN var_return
        ELSE Ok(RMul(var_return.value, value))

\* abs(var_return * current_value)
portfolio_value_at_risk(value, r, c) ==
    LET var_return == calculate_var(r, c)
    IN  IF var_return.kind = "raised" THEN var_return
        ELSE Ok(RAbs(RMul(var_return.value, value)))

\* abs(cvar_return * current_value)
portfolio_cvar(value, r, c) ==
    LET cvar_return == calculate_cvar(r, c)
    IN  IF cvar_return.kind = "raised" THEN cvar_return
        ELSE Ok(RAbs(RMul(cvar_return.value, value)))

(***************************************************************************)
(* numpy's process-wide generator, np.random.  The Mersenne Twister is     *)
(* abstracted to a full-period congruential generator over RngStates and   *)
(* a standard normal variate to one of -1, 0, 1 read off the state.        *)
(***************************************************************************)
\* faulty variant: the generator is not re-seeded
MutSeedIgnored(rng, seed) == rng

\* np.random.seed(seed): the state is set from the seed alone
np_random_seed(rng, seed) == seed % Cardinality(RngStates)

NextState(rng) == (5 * rng + 3) % Cardinality(RngStates)

\* the generator state after k variates were drawn
RECURSIVE Advance(_, _)
Advance(rng, k) == IF k <= 0 THEN rng ELSE Advance(NextState(rng), k - 1)

\* the k-th standard normal variate drawn from state rng
StandardNormal(rng, k) == (Advance(rng, k) % 3) - 1

(***************************************************************************)
(* utils/simulation.py: the Monte Carlo simulators.  Each returns what the *)
(* call returns or raises (out) and the generator state it leaves (rng).   *)
(* np.random.multivariate_normal and np.random.normal scale the standard   *)
(* variates by a square root of the covariance (of the variance); the      *)
(* model scales by the covariance (the variance) itself, which keeps a     *)
(* draw a function of the generator state, the mean and the covariance.    *)
(***************************************************************************)
HasNaNEntry(S) == \E i \in 1..Len(S) : HasNaN(S[i])

\* np.random.multivariate_normal(mean, cov, size = (n_simulations,
\* horizon_days)) from state rng: entry [k][t] is the vector of asset
\* returns drawn for day t of simulation k
multivariate_normal(rng, mean, cov_matrix, n_simulations, horizon_days) ==
    LET n == Len(mean)
        z(k, t, j) == R(StandardNormal(rng, ((k - 1) * horizon_days + (t - 1)) * n + j))
    IN  Array([k \in 1..n_simulations |->
            Array([t \in 1..horizon_days |->
                Array([i \in 1..n |->
                    RAdd(mean[i],
                         RSum(Array([j \in 1..n |-> RMul(cov_matrix[i][j], z(k, t, j))])))])])])

\* faulty variant: the daily portfolio returns are added up, not compounded
MutTerminalValueAddsReturns(cv, daily) == RMul(cv, RAdd(R(1), RSum(daily)))

\* current_value * np.prod(1 + portfolio_returns) along one simulation
terminal_value(cv, daily) ==
    RMul(cv, RProd(Array([t \in 1..Len(daily) |-> RAdd(R(1), daily[t])])))

\* simulate_portfolio_outcomes after its seeding step: rng is the state of
\* the process-wide generator when the sampler is called
sample_portfolio_outcomes(rng, P, w, cv, horizon_days, n_simulations) ==
    LET n == NCols(P)
        r == Returns(P)
        mean_returns == Array([i \in 1..n |-> Mean(Col(r, i))])
        cov_matrix == cov(r, n)
        drawn == n_simulations * horizon_days * n
        simulated_returns ==
            multivariate_normal(rng, mean_returns, cov_matrix, n_simulations, horizon_days)
        portfolio_returns(k) ==
            Array([t \in 1..horizon_days |-> Dot(simulated_returns[k][t], w)])
        final_values ==
            Array([k \in 1..n_simulations |-> terminal_value(cv, portfolio_returns(k))])
    IN  IF horizon_days < 0 \/ n_simulations < 0
        THEN [out |-> Raised("ValueError"), rng |-> rng]
        ELSE IF HasNaNEntry(cov_matrix) /\ numpy_build = "raise"
        THEN [out |-> Raised("LinAlgError"), rng |-> Advance(rng, drawn)]
        ELSE IF Len(w) # n
        THEN [out |-> Raised("ValueError"), rng |-> Advance(rng, drawn)]
        ELSE [out |-> Ok(final_values), rng |-> Advance(rng, drawn)]

\* the call run without interruption: np.random.seed, then the sampler
simulate_portfolio_outcomes(rng, P, w, cv, horizon_days, n_simulations, random_seed) ==
    sample_portfolio_outcomes(np_random_seed(rng, random_seed), P, w, cv,
                              horizon_days, n_simulations)

\* np.random.normal(mean, vol, size = (n_simulations, horizon_days)) from
\* state rng: entry [k][t] is the return drawn for day t of path k
normal(rng, mean, vol, n_simulations, horizon_days) ==
    Array([k \in 1..n_simulations |->
        Array([t \in 1..horizon_days |->
            RAdd(mean, RMul(vol, R(StandardNormal(rng, (k - 1) * horizon_days + t))))])])

\* faulty variant: every day's price is the current price moved by that
\* day's return alone
MutPricePathFromStart(start, daily) ==
    <<start>> \o Array([t \in 1..Len(daily) |-> RMul(start, RAdd(R(1), daily[t]))])

\* one row of price_paths: the price after each day, from the start price
RECURSIVE PricePath(_, _)
PricePath(start, daily) ==
    IF daily = <<>> THEN <<start>>
    ELSE <<start>> \o PricePath(RMul(start, RAdd(R(1), Head(daily))), Tail(daily))

\* daily returns of one price series
SeriesReturns(series) == Col(Returns(Array([t \in 1..Len(series) |-> <<series[t]>>])), 1)

simulate_single_asset_paths(rng, series, current_price, horizon_days, n_simulations, random_seed) ==
    LET seeded == np_random_seed(rng, random_seed)
        r == SeriesReturns(series)
        mean_return == Mean(r)
        volatility == Covariance(r, r)
        drawn == n_simulations * horizon_days
        simulated_returns == normal(seeded, mean_return, volatility, n_simulations, horizon_days)
        price_paths ==
            Array([k \in 1..n_simulations |-> PricePath(current_price, simulated_returns[k])])
    IN  IF horizon_days < 0 \/ n_simulations < 0
        THEN [out |-> Raised("ValueError"), rng |-> seeded]
        ELSE [out |-> Ok(price_paths), rng |-> Advance(seeded, drawn)]

(***************************************************************************)
(* utils/simulation.py: calculate_simulation_statistics                    *)
(***************************************************************************)
\* mean of a boolean array: the fraction of the elements of a that were
\* selected, NaN for an empty array
Fraction(selected, a) == RDiv(R(Len(selected)), R(Len(a)))

\* ndarray.std(), ddof = 0
PopulationStd(a) == Root(RDiv(CoMoment(a, a), R(Len(a))))

calculate_simulation_statistics(sv, cv) ==
    LET p5 == percentile(sv, R(5))
        p25 == percentile(sv, R(25))
        p50 == percentile(sv, R(50))
        p75 == percentile(sv, R(75))
        p95 == percentile(sv, R(95))
        prob_gain == Fraction(SelectSeq(sv, LAMBDA x : RLt(cv, x)), sv)
        prob_significant_loss ==
            Fraction(SelectSeq(sv, LAMBDA x : RLt(x, RMul(cv, <<19, 20>>))), sv)
        simulated_returns == Array([k \in 1..Len(sv) |-> RDiv(RSub(sv[k], cv), cv)])
    IN  IF p5.kind = "raised" THEN p5
        ELSE Ok([mean_value |-> Mean(sv),
                 median_value |-> p50.value,
                 std_value |-> PopulationStd(sv),
                 percentiles |-> <<p5.value, p25.value, p50.value, p75.value, p95.value>>,
                 prob_gain |-> prob_gain,
                 prob_loss |-> RSub(R(1), prob_gain),
                 prob_significant_loss |-> prob_significant_loss,
                 mean_return |-> Mean(simulated_returns),
                 median_return |-> IF \E k \in 1..Len(sv) : IsNaN(simulated_returns[k])
                                   THEN NaN
                                   ELSE percentile(simulated_returns, R(50)).value,
                 var_95 |-> p5.value,
                 cvar_95 |-> Mean(SelectSeq(sv, LAMBDA x : RLe(x, p5.value)))])

(***************************************************************************)
(* Specification Spec: a Portfolio object edited by add_holding and        *)
(* remove_holding and valued against a quotes map.                         *)
(***************************************************************************)
QuoteMaps == UNION {[S -> QuoteLevels] : S \in SUBSET Symbols}

NoQuotes == [s \in {} |-> 0]

\* the variables a specification does not use keep these values
NoPortfolio == holdings = <<>> /\ current_prices = NoQuotes
NoMatrix == prices = <<>> /\ weights = <<>>
NoSeries == returns = <<>> /\ confidence_level = R(0) /\ numpy_build = "nan"
NoSample == simulated_values = <<>> /\ current_value = R(0)
NoGenerator == np_random = 0 /\ memo = <<>>
NoCall == op = "" /\ args = <<>> /\ out = Ok(<<>>)
NoAnalysis == [stored |-> FALSE]
NoCallers ==
    /\ page = "" /\ analysis = NoAnalysis /\ calls = <<>>
    /\ exported = "" /\ restored = "" /\ fresh = <<>>

Init ==
    /\ holdings = <<>>             \* Portfolio.__init__
    /\ current_prices = NoQuotes
    /\ NoMatrix /\ NoSeries /\ NoSample /\ NoGenerator /\ NoCall /\ NoCallers

add_holding(symbol, shares, buy_price) ==
    /\ Len(holdings) < MaxHoldings
    /\ holdings' = Append(holdings, Holding(symbol, shares, buy_price))
    /\ op' = "add_holding"
    /\ args' = <<symbol, shares, buy_price>>
    /\ out' = Ok(<<>>)
    /\ UNCHANGED <<current_prices, prices, weights, returns, confidence_level,
                   simulated_values, current_value, numpy_build, np_random, memo, callers>>

\* faulty variant: a valid index removes the last holding
MutRemoveHoldingLast(index) ==
    /\ holdings' = IF 0 <= index /\ index < Len(holdings)
                   THEN SubSeq(holdings, 1, Len(holdings) - 1)
                   ELSE holdings
    /\ op' = "remove_holding"
    /\ args' = <<index>>
    /\ out' = Ok(<<>>)
    /\ UNCHANGED <<current_prices, prices, weights, returns, confidence_level,
                   simulated_values, current_value, numpy_build, np_random, memo, callers>>

\* faulty variant: list.pop without the range test, a negative index counts
\* from the end and an index past the end raises IndexError
MutRemoveHoldingUnchecked(index) ==
    /\ holdings' = IF 0 <= index /\ index < Len(holdings)
                   THEN SubSeq(holdings, 1, index) \o SubSeq(holdings, index + 2, Len(holdings))
                   ELSE IF index < 0 /\ -index <= Len(holdings)
                   THEN SubSeq(holdings, 1, Len(holdings) + index)
                            \o SubSeq(holdings, Len(holdings) + index + 2, Len(holdings))
                   ELSE holdings
    /\ op' = "remove_holding"
    /\ args' = <<index>>
    /\ out' = IF -Len(holdings) <= index /\ index < Len(holdings)
              THEN Ok(<<>>) ELSE Raised("IndexError")
    /\ UNCHANGED <<current_prices, prices, weights, returns, confidence_level,
                   simulated_values, current_value, numpy_build, np_random, memo, callers>>

\* index is a Python (0-based) list index
remove_holding(index) ==
    /\ holdings' = IF 0 <= index /\ index < Len(holdings)
                   THEN SubSeq(holdings, 1, index) \o SubSeq(holdings, index + 2, Len(holdings))
                   ELSE holdings
    /\ op' = "remove_holding"
    /\ args' = <<index>>
    /\ out' = Ok(<<>>)
    /\ UNCHANGED <<current_prices, prices, weights, returns, confidence_level,
                   simulated_values, current_value, numpy_build, np_random, memo, callers>>

CallCurrentValue(cp) ==
    /\ current_prices' = cp
    /\ op' = "calculate_current_value"
    /\ args' = <<>>
    /\ out' = Ok(calculate_current_value(holdings, cp))
    /\ UNCHANGED <<holdings, prices, weights, returns, confidence_level,
                   simulated_values, current_value, numpy_build, np_random, memo, callers>>

CallWeights(cp) ==
    /\ current_prices' = cp
    /\ op' = "calculate_weights"
    /\ args' = <<>>
    /\ out' = Ok(calculate_weights(holdings, cp))
    /\ UNCHANGED <<holdings, prices, weights, returns, confidence_level,
                   simulated_values, current_value, numpy_build, np_random, memo, callers>>

CallAllocationTable(cp) ==
    /\ current_prices' = cp
    /\ op' = "get_allocation_table"
    /\ args' = <<>>
    /\ out' = get_allocation_table(holdings, cp)
    /\ UNCHANGED <<holdings, prices, weights, returns, confidence_level,
                   simulated_values, current_value, numpy_build, np_random, memo, callers>>

CallGetSymbols ==
    /\ op' = "get_symbols"
    /\ args' = <<>>
    /\ out' = Ok(get_symbols(holdings))
    /\ UNCHANGED <<holdings, current_prices, prices, weights, returns, confidence_level,
                   simulated_values, current_value, numpy_build, np_random, memo, callers>>

CallIsEmpty ==
    /\ op' = "is_empty"
    /\ args' = <<>>
    /\ out' = Ok(is_empty(holdings))
    /\ UNCHANGED <<holdings, current_prices, prices, weights, returns, confidence_level,
                   simulated_values, current_value, numpy_build, np_random, memo, callers>>

CallHoldingCount ==
    /\ op' = "get_holding_count"
    /\ args' = <<>>
    /\ out' = Ok(get_holding_count(holdings))
    /\ UNCHANGED <<holdings, current_prices, prices, weights, returns, confidence_level,
                   simulated_values, current_value, numpy_build, np_random, memo, callers>>

CallToDict ==
    /\ op' = "to_dict"
    /\ args' = <<>>
    /\ out' = Ok(to_dict(holdings))
    /\ UNCHANGED <<holdings, current_prices, prices, weights, returns, confidence_level,
                   simulated_values, current_value, numpy_build, np_random, memo, callers>>

CallFromDict(data) ==
    /\ op' = "from_dict"
    /\ args' = <<data>>
    /\ out' = Ok(from_dict(data))
    /\ UNCHANGED <<holdings, current_prices, prices, weights, returns, confidence_level,
                   simulated_values, current_value, numpy_build, np_random, memo, callers>>

\* a mapping that has no 'holdings' key
OtherMapping == [name |-> "portfolio"]

AddHolding == \E s \in Symbols, n \in 1..MaxShares, p \in BuyPriceLevels : add_holding(s, n, p)
RemoveHolding == \E i \in -1..MaxHoldings : remove_holding(i)
CurrentValue == \E cp \in QuoteMaps : CallCurrentValue(cp)
Weights == \E cp \in QuoteMaps : CallWeights(cp)
AllocationTable == \E cp \in QuoteMaps : CallAllocationTable(cp)
ToDict == CallToDict
FromDict == \E data \in {to_dict(holdings), OtherMapping} : CallFromDict(data)
GetSymbols == CallGetSymbols
IsEmpty == CallIsEmpty
HoldingCount == CallHoldingCount

Next ==
    \/ AddHolding \/ RemoveHolding \/ CurrentValue \/ Weights \/ AllocationTable
    \/ ToDict \/ FromDict \/ GetSymbols \/ IsEmpty \/ HoldingCount

Spec == Init /\ [][Next]_vars

\* sum of f over a finite set of indices
RECURSIVE SumOver(_, _)
SumOver(S, f) ==
    IF S = {} THEN 0
    ELSE LET i == CHOOSE j \in S : TRUE IN f[i] + SumOver(S \ {i}, f)

Quoted == {i \in 1..Len(holdings) : holdings[i].symbol \in DOMAIN current_prices}

MarketValue == [i \in Quoted |-> holdings[i].shares * current_prices[holdings[i].symbol]]

TotalQuoted == SumOver(Quoted, MarketValue)

\* C1: calculate_current_value returns the sum of shares x quote over exactly
\* the holdings whose symbol is a key of the quotes map; a holding without a
\* quote adds 0 and no error is raised.
C1_CurrentValueIsQuotedSum ==
    op = "calculate_current_value" =>
        /\ out.kind = "ok"
        /\ out.value = TotalQuoted

C1_Witness ==
    /\ op = "calculate_current_value"
    /\ Len(holdings) = 2
    /\ Cardinality(Quoted) = 1
    /\ out.value > 0

C2_WitnessZeroTotal ==
    /\ op = "calculate_weights"
    /\ Len(holdings) = 2
    /\ Quoted = {}
    /\ out.value = <<R(0), R(0)>>

\* the holdings that have a quote, in portfolio order
QuotedHoldings == SelectSeq(holdings, LAMBDA h : h.symbol \in DOMAIN current_prices)

C19_RoundTripKeepsHoldings ==
    op = "from_dict"
        => /\ out.kind = "ok"
           /\ "holdings" \notin DOMAIN args[1] => out.value = <<>>
           /\ args[1] = to_dict(holdings)
                => /\ Len(out.value) = Len(holdings)
                   /\ \A i \in 1..Len(holdings) :
                        /\ out.value[i].symbol = holdings[i].symbol
                        /\ out.value[i].shares = holdings[i].shares
                        /\ out.value[i].buy_price = holdings[i].buy_price
                        /\ out.value[i].invested_value = holdings[i].invested_value

\* the round trip of a portfolio of two different holdings
C19_Witness ==
    /\ op = "from_dict"
    /\ args[1] = to_dict(holdings)
    /\ Len(holdings) = 2
    /\ holdings[1] # holdings[2]
    /\ out.value = holdings

ValuationCalls == {"calculate_current_value", "calculate_weights", "get_allocation_table"}

\* the holdings list is the old one with at most one holding taken out
RemainingKept(old, new) ==
    \/ new = old
    \/ \E k \in 1..Len(old) : new = SubSeq(old, 1, k - 1) \o SubSeq(old, k + 1, Len(old))

\* C24: every holding of the portfolio has invested_value = shares x
\* buy_price; add_holding stores the symbol, shares and buy price it is
\* called with and leaves the earlier holdings alone; remove_holding changes
\* no field of a holding that remains, and calculate_current_value,
\* calculate_weights and get_allocation_table leave the holdings unchanged.
C24_HoldingsKeepTheirFields ==
    /\ [](\A i \in 1..Len(holdings) :
              holdings[i].invested_value = holdings[i].shares * holdings[i].buy_price)
    /\ [][/\ op' = "add_holding"
                => /\ Len(holdings') = Len(holdings) + 1
                   /\ SubSeq(holdings', 1, Len(holdings)) = holdings
                   /\ LET h == holdings'[Len(holdings')]
                      IN  <<h.symbol, h.shares, h.buy_price>> = args'
          /\ op' = "remove_holding" => RemainingKept(holdings, holdings')
          /\ op' \in ValuationCalls => holdings' = holdings]_vars

\* a holding bought for nothing and a holding bought at a price, both valued
C24_Witness ==
    /\ op \in ValuationCalls
    /\ Len(holdings) = 2
    /\ holdings[1].shares = 2 /\ holdings[1].buy_price = 0 /\ holdings[1].invested_value = 0
    /\ holdings[2].shares = 2 /\ holdings[2].buy_price = 1 /\ holdings[2].invested_value = 2

C28_WeightsSumToOne ==
    (op = "calculate_weights" /\ TotalQuoted # 0)
        => /\ RSum(out.value) = R(1)
           /\ \A i \in 1..Len(holdings) : i \notin Quoted => out.value[i] = R(0)
           /\ (\A s \in DOMAIN current_prices : current_prices[s] > 0)
                => \A i \in 1..Len(holdings) :
                      RLe(R(0), out.value[i]) /\ RLe(out.value[i], R(1))

\* one holding with a quote, one without
C28_Witness ==
    /\ op = "calculate_weights"
    /\ Len(holdings) = 2
    /\ Quoted = {2}
    /\ TotalQuoted # 0
    /\ out.value = <<R(0), R(1)>>

\* C29: remove_holding with an index below 0 or at or above the count, on
\* an empty portfolio too, leaves the holdings as they are and raises
\* nothing.
C29_OutOfRangeRemoveIsNoOp ==
    [][(op' = "remove_holding" /\ ~(0 <= args'[1] /\ args'[1] < Len(holdings)))
            => holdings' = holdings /\ out'.kind = "ok"]_vars

\* a negative index on a full portfolio
C29_Witness ==
    /\ op = "remove_holding"
    /\ args[1] = -1
    /\ Len(holdings) = MaxHoldings
    /\ out.kind = "ok"

(***************************************************************************)
(* Specification SpecDecomp: the functions of a price matrix and a weight  *)
(* vector, applied to every matrix and vector within the bounds.           *)
(***************************************************************************)
PriceMatrices ==
    UNION {[1..rows -> [1..n -> PriceLevels]] : rows \in 1..MaxRows, n \in 1..MaxAssets}

WeightValues == {Norm(k, WeightDen) : k \in -1..WeightDen}

WeightVectors == UNION {[1..n -> WeightValues] : n \in 1..MaxAssets}

InitDecomp ==
    /\ prices \in PriceMatrices
    /\ weights \in WeightVectors
    /\ NoPortfolio /\ NoSeries /\ NoSample /\ NoGenerator /\ NoCall /\ NoCallers

Apply(name, result) ==
    /\ op' = name
    /\ args' = <<>>
    /\ out' = result
    /\ UNCHANGED <<holdings, current_prices, prices, weights, returns, confidence_level,
                   simulated_values, current_value, numpy_build, np_random, memo, callers>>

RiskContribution == Apply("calculate_risk_contribution", calculate_risk_contribution(prices, weights))

CorrelationMatrix == Apply("calculate_correlation_matrix", calculate_correlation_matrix(prices))

PortfolioReturns == Apply("calculate_portfolio_returns", calculate_portfolio_returns(prices, weights))

NextDecomp == RiskContribution \/ CorrelationMatrix \/ PortfolioReturns

SpecDecomp == InitDecomp /\ [][NextDecomp]_vars

\* C3: when the weight vector matches the columns and the portfolio variance
\* w'Sw is > 0, the percentages of calculate_risk_contribution sum to 100.
C3_RiskContributionsSumTo100 ==
    (/\ op = "calculate_risk_contribution"
     /\ Len(weights) = NCols(prices)
     /\ RLt(R(0), portfolio_variance(prices, weights)))
        => (out.kind = "ok" /\ RSum(out.value) = R(100))

C3_Witness ==
    /\ op = "calculate_risk_contribution"
    /\ NCols(prices) = 2
    /\ Len(weights) = 2
    /\ RLt(R(0), portfolio_variance(prices, weights))
    /\ RLt(R(0), out.value[1]) /\ RLt(out.value[1], out.value[2])
    /\ RSum(out.value) = R(100)

\* C7: a price matrix with exactly 2 rows yields exactly 1 return row and no
\* InsufficientDataError; a price matrix with 1 row makes the returns
\* computation fail with InsufficientDataError.
C7_ReturnsBoundary ==
    (op = "calculate_portfolio_returns" /\ Len(weights) = NCols(prices)) =>
        /\ Len(prices) = 2 => (out.kind = "ok" /\ Len(out.value) = 1)
        /\ Len(prices) = 1 => out = Raised("InsufficientDataError")

\* C8: the correlation matrix is symmetric and its diagonal is exactly 1.0
\* for every asset, also for an asset whose returns have zero variance
\* (stated for price matrices with at least two return rows).
C8_CorrelationSymmetricUnitDiagonal ==
    (op = "calculate_correlation_matrix" /\ Len(prices) >= 3) =>
        /\ out.kind = "ok"
        /\ \A i, j \in 1..NCols(prices) :
              ~IsNaN(out.value[i][j]) /\ out.value[i][j] = out.value[j][i]
        /\ \A i \in 1..NCols(prices) : out.value[i][i] = One

\* C12: calculate_risk_contribution fails with DegenerateVarianceError
\* whenever the portfolio variance w'Sw is at most 0, and never returns a
\* NaN or an infinite percentage.
C12_DegenerateVarianceRejected ==
    (op = "calculate_risk_contribution" /\ Len(weights) = NCols(prices))
        => /\ RLe(portfolio_variance(prices, weights), R(0))
                => out = Raised("DegenerateVarianceError")
           /\ out.kind = "ok" => \A i \in 1..Len(out.value) : IsFinite(out.value[i])

(***************************************************************************)
(* Specification SpecMetrics: the risk metrics applied to every return     *)
(* series, confidence level and portfolio value within the bounds.         *)
(***************************************************************************)
ReturnSeries == UNION {[1..n -> ReturnLevels] : n \in 0..MaxLen}

\* k / ConfDen from 0 to beyond 1, and the default 0.95
ConfidenceLevels == {Norm(k, ConfDen) : k \in 0..(ConfDen + 1)} \cup {<<19, 20>>}

InitMetrics ==
    /\ returns \in ReturnSeries
    /\ confidence_level \in ConfidenceLevels
    /\ numpy_build \in {"nan", "raise"}
    /\ current_value \in ValueLevels
    /\ simulated_values = <<>>
    /\ NoPortfolio /\ NoMatrix /\ NoGenerator /\ NoCall /\ NoCallers

Var == Apply("calculate_var", calculate_var(returns, confidence_level))

CVar == Apply("calculate_cvar", calculate_cvar(returns, confidence_level))

Volatility == \E annualize \in BOOLEAN :
    Apply("calculate_volatility", calculate_volatility(returns, annualize))

MaxDrawdown == Apply("calculate_max_drawdown", calculate_max_drawdown(returns))

PortfolioVaR ==
    Apply("portfolio_value_at_risk",
          portfolio_value_at_risk(current_value, returns, confidence_level))

PortfolioCVaR ==
    Apply("portfolio_cvar", portfolio_cvar(current_value, returns, confidence_level))

NextMetrics == Var \/ CVar \/ Volatility \/ MaxDrawdown \/ PortfolioVaR \/ PortfolioCVaR

SpecMetrics == InitMetrics /\ [][NextMetrics]_vars

InOpenUnitInterval(c) == RLt(R(0), c) /\ RLt(c, R(1))

\* C6: for a return series of at least two elements and a confidence in
\* (0, 1), calculate_cvar <= calculate_var as signed returns.
C6_CvarAtMostVar ==
    (/\ op = "calculate_cvar"
     /\ Len(returns) >= 2
     /\ InOpenUnitInterval(confidence_level))
        => /\ out.kind = "ok"
           /\ calculate_var(returns, confidence_level).kind = "ok"
           /\ RLe(out.value, calculate_var(returns, confidence_level).value)

C6_Witness ==
    /\ op = "calculate_cvar"
    /\ Len(returns) >= 2
    /\ InOpenUnitInterval(confidence_level)
    /\ RLt(out.value, calculate_var(returns, confidence_level).value)

\* C9: calculate_var, calculate_cvar and their monetary wrappers reject a
\* confidence level of exactly 0 or exactly 1 with InvalidParameterError
\* (stated for series of at least two returns).
C9_ConfidenceBoundsRejected ==
    (/\ op \in {"calculate_var", "calculate_cvar",
                "portfolio_value_at_risk", "portfolio_cvar"}
     /\ Len(returns) >= 2
     /\ confidence_level \in {R(0), R(1)})
        => out = Raised("InvalidParameterError")

\* C10: each risk metric called on an empty or single-element return series
\* yields InsufficientDataError, not a number or NaN (stated for a valid
\* confidence level).
C10_ShortSeriesRejected ==
    (/\ op \in {"calculate_var", "calculate_cvar",
                "calculate_volatility", "calculate_max_drawdown"}
     /\ Len(returns) <= 1
     /\ InOpenUnitInterval(confidence_level))
        => out = Raised("InsufficientDataError")

\* the returns at or below the VaR threshold, none when there is no threshold
TailAtVar ==
    LET var == calculate_var(returns, confidence_level)
    IN  IF var.kind = "ok" THEN SelectSeq(returns, LAMBDA x : RLe(x, var.value)) ELSE <<>>

\* C13: for a confidence in (0, 1), calculate_cvar returns the mean of the
\* returns at or below the VaR threshold, fails with DegenerateSampleError
\* when no return is at or below it, and never returns NaN.
C13_CvarTailMeanOrSampleError ==
    (op = "calculate_cvar" /\ InOpenUnitInterval(confidence_level))
        => /\ TailAtVar # <<>>
                => /\ out.kind = "ok"
                   /\ RMul(out.value, R(Len(TailAtVar))) = RSum(TailAtVar)
           /\ TailAtVar = <<>> => out = Raised("DegenerateSampleError")
           /\ out # Ok(NaN)

\* the value after t days of one unit invested at the start of the series
Wealth(t) == RProd(Array([i \in 1..t |-> RAdd(R(1), returns[i])]))

\* the decline at day t from the highest value since the start, day 0 included
DeclineFromPeak(t) ==
    LET s == CHOOSE s \in 0..t : \A u \in 0..t : RLe(Wealth(u), Wealth(s))
    IN  RSub(RDiv(Wealth(t), Wealth(s)), R(1))

\* C14: for a non-empty return series, calculate_max_drawdown returns the
\* least value of cumulative / peak - 1, the cumulative product of 1 + r and
\* its running peak both starting from the value 1.0 before the first
\* return; the result is at most 0.
C14_DrawdownFromStartingValue ==
    (op = "calculate_max_drawdown" /\ returns # <<>>)
        => /\ out.kind = "ok"
           /\ \A t \in 1..Len(returns) : RLe(out.value, DeclineFromPeak(t))
           /\ \E t \in 1..Len(returns) : out.value = DeclineFromPeak(t)
           /\ RLe(out.value, R(0))

\* the signed return the monetary wrapper of the last call scales
SignedMetric ==
    IF op = "portfolio_value_at_risk" THEN calculate_var(returns, confidence_level)
    ELSE calculate_cvar(returns, confidence_level)

\* C15 as stated: for a confidence in (0, 1), what portfolio_value_at_risk
\* and portfolio_cvar return is abs(metric) x current_value, metric being
\* the signed VaR (CVaR) return, and it is non-negative, for every return
\* series and every current_value.
C15_MonetaryRiskIsAbsMetricTimesValue ==
    (/\ op \in {"portfolio_value_at_risk", "portfolio_cvar"}
     /\ InOpenUnitInterval(confidence_level)
     /\ out.kind = "ok")
        => /\ SignedMetric.kind = "ok"
           /\ out.value = RMul(RAbs(SignedMetric.value), current_value)
           /\ RLe(R(0), out.value)

\* C15: portfolio_value_at_risk and portfolio_cvar raise what the signed
\* metric raises and otherwise return abs(metric) x abs(current_value),
\* which is never negative, for every return series, confidence and
\* current_value.
C15_MonetaryRiskIsAbsOfProduct ==
    op \in {"portfolio_value_at_risk", "portfolio_cvar"}
        => IF SignedMetric.kind = "raised" THEN out = SignedMetric
           ELSE /\ out = Ok(RMul(RAbs(SignedMetric.value), RAbs(current_value)))
                /\ ~RLt(out.value, R(0))

\* the value at risk of a net short position after two losing days
C15_Witness ==
    /\ op = "portfolio_value_at_risk"
    /\ returns = <<Norm(-1, 2), Norm(-1, 4)>>
    /\ confidence_level = Norm(1, 2)
    /\ current_value = R(-100)
    /\ out = Ok(Norm(75, 2))

\* C21: for a confidence in (0, 1) and a current_value of at least 0, the
\* amount portfolio_cvar returns is at least the amount
\* portfolio_value_at_risk returns for the same return series, confidence
\* and current_value.
C21_MonetaryCvarAtLeastVar ==
    (/\ op = "portfolio_cvar"
     /\ InOpenUnitInterval(confidence_level)
     /\ RLe(R(0), current_value)
     /\ out.kind = "ok")
        => LET var_amount == portfolio_value_at_risk(current_value, returns, confidence_level)
           IN  /\ var_amount.kind = "ok"
               /\ RLe(var_amount.value, out.value)

(***************************************************************************)
(* Specification SpecStats: calculate_simulation_statistics applied to     *)
(* every array of simulated values and current value within the bounds.    *)
(***************************************************************************)
SimulatedArrays == UNION {[1..n -> SimLevels] : n \in 0..MaxSims}

InitStats ==
    /\ simulated_values \in SimulatedArrays
    /\ current_value \in ValueLevels
    /\ numpy_build \in {"nan", "raise"}
    /\ returns = <<>> /\ confidence_level = R(0)
    /\ NoPortfolio /\ NoMatrix /\ NoGenerator /\ NoCall /\ NoCallers

SimulationStatistics ==
    Apply("calculate_simulation_statistics",
          calculate_simulation_statistics(simulated_values, current_value))

NextStats == SimulationStatistics

SpecStats == InitStats /\ [][NextStats]_vars

CountWhere(a, Test(_)) == Cardinality({k \in 1..Len(a) : Test(a[k])})

\* C5: prob_gain is the fraction of simulated values strictly greater than
\* current_value and prob_loss the fraction strictly less; an array whose
\* values all equal current_value gives prob_gain = 0, prob_loss = 0 and
\* median_value = current_value.
C5_StrictGainAndLoss ==
    (/\ op = "calculate_simulation_statistics"
     /\ Len(simulated_values) > 0)
        => /\ out.kind = "ok"
           /\ out.value.prob_gain[1] * Len(simulated_values) =
                CountWhere(simulated_values, LAMBDA x : RLt(current_value, x)) * out.value.prob_gain[2]
           /\ out.value.prob_loss[1] * Len(simulated_values) =
                CountWhere(simulated_values, LAMBDA x : RLt(x, current_value)) * out.value.prob_loss[2]
           /\ (\A k \in 1..Len(simulated_values) : simulated_values[k] = current_value)
                => /\ out.value.prob_gain = R(0)
                   /\ out.value.prob_loss = R(0)
                   /\ out.value.median_value = current_value

(***************************************************************************)
(* Specification SpecSim: one process calling the simulators, and drawing  *)
(* from np.random between the calls, on a fixed price history.             *)
(***************************************************************************)
\* price histories of three rows whose first two closes are 1
SimPriceMatrices ==
    {P \in PriceMatrices : Len(P) = 3 /\ \A j \in 1..Len(P[1]) : P[1][j] = 1 /\ P[2][j] = 1}

EqualWeights(n) == [i \in 1..n |-> Norm(1, n)]

InitSim ==
    /\ prices \in SimPriceMatrices
    /\ weights = EqualWeights(NCols(prices))
    /\ current_value = R(100)
    /\ np_random \in RngStates
    /\ numpy_build = "raise"
    /\ memo = <<>>
    /\ returns = <<>> /\ confidence_level = R(0) /\ simulated_values = <<>>
    /\ NoPortfolio /\ NoCall /\ NoCallers

\* The first simulation call of the run is remembered with its result;
\* memo[4] tells whether the generator was used by another call since.
Remember(name, a, result) ==
    memo' = IF memo = <<>> THEN <<name, a, result, FALSE>>
            ELSE IF memo[1] = name /\ memo[2] = a THEN memo
            ELSE <<memo[1], memo[2], memo[3], TRUE>>

SimulatePortfolio(h, n, seed) ==
    LET call == simulate_portfolio_outcomes(np_random, prices, weights, current_value, h, n, seed)
    IN  /\ op' = "simulate_portfolio_outcomes"
        /\ args' = <<h, n, seed>>
        /\ out' = call.out
        /\ np_random' = call.rng
        /\ Remember("simulate_portfolio_outcomes", <<h, n, seed>>, call.out)
        /\ UNCHANGED <<holdings, current_prices, prices, weights, returns, confidence_level,
                       simulated_values, current_value, numpy_build, callers>>

\* the Scenario Explorer simulates one column from its most recent close
SimulateSingleAsset(j, h, n, seed) ==
    LET call == simulate_single_asset_paths(np_random, Col(prices, j),
                                            R(prices[Len(prices)][j]), h, n, seed)
    IN  /\ op' = "simulate_single_asset_paths"
        /\ args' = <<j, h, n, seed>>
        /\ out' = call.out
        /\ np_random' = call.rng
        /\ Remember("simulate_single_asset_paths", <<j, h, n, seed>>, call.out)
        /\ UNCHANGED <<holdings, current_prices, prices, weights, returns, confidence_level,
                       simulated_values, current_value, numpy_build, callers>>

\* any other draw from the process-wide generator (np.random.choice)
RandomChoice ==
    /\ np_random' = NextState(np_random)
    /\ op' = "np.random.choice"
    /\ args' = <<>>
    /\ out' = Ok(<<>>)
    /\ memo' = IF memo = <<>> THEN memo ELSE <<memo[1], memo[2], memo[3], TRUE>>
    /\ UNCHANGED <<holdings, current_prices, prices, weights, returns, confidence_level,
                   simulated_values, current_value, numpy_build, callers>>

PortfolioOutcomes == \E h \in 1..MaxHorizon, seed \in Seeds : SimulatePortfolio(h, MaxPaths, seed)

SingleAssetPaths ==
    \E j \in 1..NCols(prices), h \in 1..MaxHorizon, seed \in Seeds :
        SimulateSingleAsset(j, h, MaxPaths, seed)

NextSim == PortfolioOutcomes \/ SingleAssetPaths \/ RandomChoice

SpecSim == InitSim /\ [][NextSim]_vars

Simulators == {"simulate_portfolio_outcomes", "simulate_single_asset_paths"}

\* C4: a call of simulate_portfolio_outcomes or simulate_single_asset_paths
\* returns the same arrays as the first call made with the same arguments
\* and seed, whatever was drawn from the generator before or in between.
C4_SameArgumentsSameArrays ==
    (op \in Simulators /\ memo # <<>> /\ memo[1] = op /\ memo[2] = args)
        => out = memo[3]

\* a repeated call, made after other calls used the generator
C4_Witness ==
    /\ op = "simulate_portfolio_outcomes"
    /\ memo # <<>> /\ memo[1] = op /\ memo[2] = args /\ memo[4]
    /\ out.kind = "ok"
    /\ out.value[1] # out.value[2]
    /\ out = memo[3]

(***************************************************************************)
(* The simulators and the risk decomposition over arguments of every       *)
(* shape: a weight vector as long as the price matrix is wide or not, a    *)
(* price history of one row, a horizon of no or fewer days.                *)
(***************************************************************************)
SimArgMatrices ==
    SimPriceMatrices \cup
        {P \in PriceMatrices : Len(P) = 1 /\ \A j \in 1..Len(P[1]) : P[1][j] = 1}

Horizons == -1..MaxHorizon

InitSimArgs ==
    /\ prices \in SimArgMatrices
    /\ weights \in {EqualWeights(n) : n \in 1..MaxAssets}
    /\ current_value = R(100)
    /\ np_random = 0
    /\ numpy_build \in {"nan", "raise"}
    /\ memo = <<>>
    /\ returns = <<>> /\ confidence_level = R(0) /\ simulated_values = <<>>
    /\ NoPortfolio /\ NoCall /\ NoCallers

CallPortfolioOutcomes(h, n, seed) ==
    LET call == simulate_portfolio_outcomes(np_random, prices, weights, current_value, h, n, seed)
    IN  /\ op' = "simulate_portfolio_outcomes"
        /\ args' = <<h, n, seed>>
        /\ out' = call.out
        /\ np_random' = call.rng
        /\ UNCHANGED <<holdings, current_prices, prices, weights, returns, confidence_level,
                       simulated_values, current_value, numpy_build, memo, callers>>

CallSingleAssetPaths(j, h, n, seed) ==
    LET call == simulate_single_asset_paths(np_random, Col(prices, j),
                                            R(prices[Len(prices)][j]), h, n, seed)
    IN  /\ op' = "simulate_single_asset_paths"
        /\ args' = <<j, h, n, seed>>
        /\ out' = call.out
        /\ np_random' = call.rng
        /\ UNCHANGED <<holdings, current_prices, prices, weights, returns, confidence_level,
                       simulated_values, current_value, numpy_build, memo, callers>>

OutcomesAnyHorizon == \E h \in Horizons, seed \in Seeds : CallPortfolioOutcomes(h, MaxPaths, seed)

PathsAnyHorizon ==
    \E j \in 1..NCols(prices), h \in Horizons, seed \in Seeds :
        CallSingleAssetPaths(j, h, MaxPaths, seed)

NextSimArgs == OutcomesAnyHorizon \/ PathsAnyHorizon \/ RiskContribution

SpecSimArgs == InitSimArgs /\ [][NextSimArgs]_vars

\* the horizon of the last simulator call
HorizonOfCall == IF op = "simulate_portfolio_outcomes" THEN args[1] ELSE args[2]

TakesWeights == {"calculate_risk_contribution", "simulate_portfolio_outcomes"}

DrawsOfPaths ==
    LET r == SeriesReturns(Col(prices, args[1]))
    IN  normal(np_random_seed(np_random, args[4]), Mean(r), Covariance(r, r), args[3], args[2])

DrawsOfOutcomes ==
    LET n == NCols(prices)
        r == Returns(prices)
    IN  multivariate_normal(np_random_seed(np_random, args[3]),
                            Array([i \in 1..n |-> Mean(Col(r, i))]), cov(r, n),
                            args[2], args[1])

\* current_value compounded over the first t days of simulation k
RECURSIVE ValueAfter(_, _)
ValueAfter(k, t) ==
    IF t = 0 THEN current_value
    ELSE RMul(ValueAfter(k, t - 1), RAdd(R(1), Dot(DrawsOfOutcomes[k][t], weights)))

\* C17: called with a horizon of no fewer than 0 days and as many weights
\* as the price matrix has columns, simulate_portfolio_outcomes (unless the
\* sampler refuses the covariance) returns exactly n_simulations values, the
\* k-th being current_value times the product over the simulated days of
\* 1 + r_t, r_t the dot product of that day's drawn asset returns with the
\* weights.
C17_TerminalValuesCompoundDailyReturns ==
    (/\ op = "simulate_portfolio_outcomes"
     /\ args[1] >= 0
     /\ Len(weights) = NCols(prices)
     /\ out # Raised("LinAlgError"))
        => /\ out.kind = "ok"
           /\ Len(out.value) = args[2]
           /\ \A k \in 1..args[2] : out.value[k] = ValueAfter(k, args[1])

\* two assets over two days, both simulations ending away from the
\* current value and from each other
C17_Witness ==
    /\ op = "simulate_portfolio_outcomes"
    /\ args[1] = 2
    /\ NCols(prices) = 2
    /\ out.kind = "ok"
    /\ IsFinite(out.value[1]) /\ IsFinite(out.value[2])
    /\ out.value[1] # current_value
    /\ out.value[2] # current_value
    /\ out.value[1] # out.value[2]

\* C20: simulate_portfolio_outcomes and simulate_single_asset_paths reject
\* a horizon of 0 or fewer days with InvalidParameterError and return no
\* result.
C20_NonPositiveHorizonRejected ==
    (op \in Simulators /\ HorizonOfCall <= 0)
        => out = Raised("InvalidParameterError")

(***************************************************************************)
(* Specification SpecThreads: two session threads of one process inside    *)
(* simulate_portfolio_outcomes.  np.random.seed and the sampler are two    *)
(* steps on the process-wide generator, and the steps of the threads       *)
(* interleave.                                                             *)
(***************************************************************************)
Threads == {1, 2}

Idle == [pc |-> "idle", args |-> <<>>, before |-> 0, out |-> Ok(<<>>), after |-> 0]

InitThreads ==
    /\ prices \in SimPriceMatrices
    /\ weights = EqualWeights(NCols(prices))
    /\ current_value = R(100)
    /\ np_random = 0
    /\ numpy_build = "raise"
    /\ memo = <<>>
    /\ returns = <<>> /\ confidence_level = R(0) /\ simulated_values = <<>>
    /\ NoPortfolio /\ NoCall
    /\ calls = [t \in Threads |-> Idle]
    /\ page = "" /\ analysis = NoAnalysis
    /\ exported = "" /\ restored = "" /\ fresh = <<>>

\* thread t enters the call and runs np.random.seed(random_seed)
SeedStep(t, h, n, seed) ==
    /\ calls[t].pc # "seeded"
    /\ np_random' = np_random_seed(np_random, seed)
    /\ calls' = [calls EXCEPT ![t] = [pc |-> "seeded", args |-> <<h, n, seed>>,
                                      before |-> np_random, out |-> Ok(<<>>), after |-> 0]]
    /\ op' = "np.random.seed"
    /\ args' = <<h, n, seed>>
    /\ out' = Ok(<<>>)
    /\ UNCHANGED <<holdings, current_prices, prices, weights, returns, confidence_level,
                   simulated_values, current_value, numpy_build, memo,
                   page, analysis, exported, restored, fresh>>

\* thread t draws its sample from the generator as it is now, and returns
SampleStep(t) ==
    /\ calls[t].pc = "seeded"
    /\ LET a == calls[t].args
           call == sample_portfolio_outcomes(np_random, prices, weights, current_value,
                                             a[1], a[2])
       IN  /\ np_random' = call.rng
           /\ calls' = [calls EXCEPT ![t] = [pc |-> "returned", args |-> a,
                                             before |-> calls[t].before,
                                             out |-> call.out, after |-> call.rng]]
           /\ op' = "simulate_portfolio_outcomes"
           /\ args' = a
           /\ out' = call.out
    /\ UNCHANGED <<holdings, current_prices, prices, weights, returns, confidence_level,
                   simulated_values, current_value, numpy_build, memo,
                   page, analysis, exported, restored, fresh>>

Seeding == \E t \in Threads, seed \in Seeds : SeedStep(t, MaxHorizon, MaxPaths, seed)

Sampling == \E t \in Threads : SampleStep(t)

NextThreads == Seeding \/ Sampling

SpecThreads == InitThreads /\ [][NextThreads]_vars

\* C22: what a call of simulate_portfolio_outcomes returns is what its own
\* arguments and seed determine, whatever another thread did between its
\* seeding and its sampling, and the process-wide generator is after the
\* call in the state it had before it.
C22_CallIndependentOfSharedGenerator ==
    \A t \in Threads :
        calls[t].pc = "returned"
            => /\ calls[t].out =
                      simulate_portfolio_outcomes(np_random, prices, weights, current_value,
                          calls[t].args[1], calls[t].args[2], calls[t].args[3]).out
               /\ calls[t].after = calls[t].before

(***************************************************************************)
(* Specification SpecApp: one browser session of the Streamlit app.  The   *)
(* home page edits st.session_state.portfolio; the sidebar opens any page  *)
(* at any time, which runs that page's script from the top.  The market    *)
(* data service answers differently from visit to visit: a symbol may have *)
(* a price history or not, a quote or not.                                 *)
(***************************************************************************)
Pages == {"home", "risk_overview", "risk_drivers", "scenario_explorer", "report"}

\* the closes the data service returns for a symbol's history
History ==
    [s \in Symbols |-> IF s = "AAA" THEN <<1, 1, 2>> ELSE <<1, 2, 1>>]

\* the most recent price the data service quotes for a symbol
Quote == [s \in Symbols |-> IF s = "AAA" THEN 1 ELSE 2]

Range(f) == {f[i] : i \in DOMAIN f}

\* the column labels of the DataFrame fetch_multiple_stocks fills: a column
\* per symbol whose fetch succeeds, assigned by label
RECURSIVE FetchColumns(_, _, _)
FetchColumns(symbols, available, columns) ==
    IF symbols = <<>> THEN columns
    ELSE IF Head(symbols) \in available /\ Head(symbols) \notin Range(columns)
         THEN FetchColumns(Tail(symbols), available, Append(columns, Head(symbols)))
         ELSE FetchColumns(Tail(symbols), available, columns)

fetch_multiple_stocks(symbols, available) ==
    LET columns == FetchColumns(symbols, available, <<>>)
        rows == Len(History[CHOOSE s \in Symbols : TRUE])
    IN  IF columns = <<>> THEN Raised("ValueError")
        ELSE Ok([columns |-> columns,
                 values |-> [t \in 1..rows |->
                                [j \in 1..Len(columns) |-> History[columns[j]][t]]]])

get_current_prices(symbols, quoted) ==
    [s \in Range(symbols) \cap quoted |-> Quote[s]]

\* the analysis block of the Risk Overview page: what it stores in
\* st.session_state.analysis (computed_from is history: the holdings the
\* block read), or the exception its try block caught, and the generator
\* state it leaves
risk_overview_analysis(hs, available, quoted, rng) ==
    LET fetched == fetch_multiple_stocks(get_symbols(hs), available)
        cp == get_current_prices(get_symbols(hs), quoted)
        portfolio_value == calculate_current_value(hs, cp)
        w == calculate_weights(hs, cp)
        portfolio_returns == calculate_portfolio_returns(fetched.value.values, w)
        var_amount == portfolio_value_at_risk(R(portfolio_value), portfolio_returns.value,
                                              <<19, 20>>)
        cvar_amount == portfolio_cvar(R(portfolio_value), portfolio_returns.value, <<19, 20>>)
        sim == simulate_portfolio_outcomes(rng, fetched.value.values, w, R(portfolio_value),
                                           MaxHorizon, MaxPaths, 42)
    IN  IF fetched.kind = "raised" THEN [out |-> fetched, rng |-> rng]
        ELSE IF portfolio_returns.kind = "raised" THEN [out |-> portfolio_returns, rng |-> rng]
        ELSE IF var_amount.kind = "raised" THEN [out |-> var_amount, rng |-> rng]
        ELSE IF cvar_amount.kind = "raised" THEN [out |-> cvar_amount, rng |-> rng]
        ELSE IF sim.out.kind = "raised" THEN sim
        ELSE [out |-> Ok([stored |-> TRUE,
                          prices |-> fetched.value.values,
                          columns |-> fetched.value.columns,
                          current_prices |-> cp,
                          portfolio_value |-> portfolio_value,
                          weights |-> w,
                          var_amount |-> var_amount.value,
                          cvar_amount |-> cvar_amount.value,
                          simulated_values |-> sim.out.value,
                          portfolio_returns |-> portfolio_returns.value,
                          computed_from |-> hs]),
              rng |-> sim.rng]

InitApp ==
    /\ holdings = <<>>             \* st.session_state.portfolio = Portfolio()
    /\ current_prices = NoQuotes
    /\ page = "home"
    /\ analysis = NoAnalysis       \* 'analysis' not in st.session_state
    /\ np_random = 0
    /\ numpy_build = "raise"
    /\ memo = <<>>
    /\ returns = <<>> /\ confidence_level = R(0)
    /\ NoMatrix /\ NoSample /\ NoCall
    /\ calls = <<>> /\ exported = "" /\ restored = "" /\ fresh = <<>>

\* a page script that ran to st.stop() at its guard
Stopped == Raised("StopException")

\* the add form of the home page, the symbol validated
HomeAdd == page = "home" /\ \E s \in Symbols : add_holding(s, 1, 1)

\* the remove expander of the home page: the select box offers the indices
\* of the holdings
HomeRemove == page = "home" /\ \E i \in 0..(Len(holdings) - 1) : remove_holding(i)

OpenHome ==
    /\ page' = "home"
    /\ op' = "home"
    /\ args' = <<>>
    /\ out' = Ok(<<>>)
    /\ UNCHANGED <<holdings, current_prices, prices, weights, returns, confidence_level,
                   simulated_values, current_value, numpy_build, np_random, memo,
                   analysis, calls, exported, restored, fresh>>

\* the Risk Overview script: the guard, then the analysis block
OpenRiskOverview ==
    \E available \in SUBSET Symbols, quoted \in SUBSET Symbols :
        LET block == risk_overview_analysis(holdings, available, quoted, np_random)
            guarded == is_empty(holdings)
        IN  /\ page' = "risk_overview"
            /\ op' = "risk_overview"
            /\ args' = <<available, quoted>>
            /\ out' = IF guarded THEN Stopped ELSE block.out
            /\ analysis' = IF ~guarded /\ block.out.kind = "ok" THEN block.out.value
                           ELSE analysis
            /\ np_random' = IF guarded THEN np_random ELSE block.rng
            /\ UNCHANGED <<holdings, current_prices, prices, weights, returns,
                           confidence_level, simulated_values, current_value, numpy_build,
                           memo, calls, exported, restored, fresh>>

\* the Risk Drivers script: reads prices and weights of the stored analysis
OpenRiskDrivers ==
    /\ page' = "risk_drivers"
    /\ op' = "risk_drivers"
    /\ args' = <<>>
    /\ out' = IF ~analysis.stored THEN Stopped
              ELSE calculate_risk_contribution(analysis.prices, analysis.weights)
    /\ UNCHANGED <<holdings, current_prices, prices, weights, returns, confidence_level,
                   simulated_values, current_value, numpy_build, np_random, memo,
                   analysis, calls, exported, restored, fresh>>

\* the Scenario Explorer script: simulates the selected column of the
\* stored prices from its stored quote, then draws the paths to display
OpenScenarioExplorer ==
    IF ~analysis.stored
    THEN /\ page' = "scenario_explorer"
         /\ op' = "scenario_explorer"
         /\ args' = <<>>
         /\ out' = Stopped
         /\ UNCHANGED <<holdings, current_prices, prices, weights, returns,
                        confidence_level, simulated_values, current_value, numpy_build,
                        np_random, memo, analysis, calls, exported, restored, fresh>>
    ELSE \E j \in 1..Len(analysis.columns) :
            LET selected == analysis.columns[j]
                has_quote == selected \in DOMAIN analysis.current_prices
                call == simulate_single_asset_paths(np_random, Col(analysis.prices, j),
                            R(analysis.current_prices[selected]), MaxHorizon, MaxPaths, 42)
            IN  /\ page' = "scenario_explorer"
                /\ op' = "scenario_explorer"
                /\ args' = <<selected>>
                /\ out' = IF has_quote THEN call.out ELSE Raised("KeyError")
                /\ np_random' = IF has_quote THEN NextState(call.rng) ELSE np_random
                /\ UNCHANGED <<holdings, current_prices, prices, weights, returns,
                               confidence_level, simulated_values, current_value,
                               numpy_build, memo, analysis, calls, exported, restored,
                               fresh>>

\* the Report script with its Generate button pressed: the allocation table
\* of the session portfolio next to the weights of the stored analysis
OpenReport ==
    /\ page' = "report"
    /\ op' = "report"
    /\ args' = <<>>
    /\ out' = IF ~analysis.stored THEN Stopped
              ELSE Ok([allocation |->
                           get_allocation_table(holdings, analysis.current_prices).value,
                       weights |-> analysis.weights,
                       portfolio_value |-> analysis.portfolio_value])
    /\ UNCHANGED <<holdings, current_prices, prices, weights, returns, confidence_level,
                   simulated_values, current_value, numpy_build, np_random, memo,
                   analysis, calls, exported, restored, fresh>>

NextApp ==
    \/ HomeAdd \/ HomeRemove \/ OpenHome \/ OpenRiskOverview
    \/ OpenRiskDrivers \/ OpenScenarioExplorer \/ OpenReport

SpecApp == InitApp /\ [][NextApp]_vars

\* the price matrix of the last run of the analysis block
FetchedPrices == fetch_multiple_stocks(get_symbols(holdings), args[1])

\* C23: whenever the Risk Overview block has fetched a price matrix, the
\* weight vector of calculate_weights has one entry per column of it, and
\* entry i belongs to the symbol of column i.
C23_WeightsAlignedWithColumns ==
    (op = "risk_overview" /\ out # Stopped /\ FetchedPrices.kind = "ok")
        => LET columns == FetchedPrices.value.columns
               w == calculate_weights(holdings, get_current_prices(get_symbols(holdings),
                                                                   args[2]))
           IN  /\ Len(w) = Len(columns)
               /\ \A i \in 1..Len(columns) : holdings[i].symbol = columns[i]

\* C27: the analysis block of the Risk Overview page executes only when the
\* session portfolio has at least 2 holdings.
C27_AnalysisNeedsTwoHoldings ==
    (op = "risk_overview" /\ out # Stopped) => get_holding_count(holdings) >= 2

\* C30: whenever the Risk Drivers, Scenario Explorer or Report page uses
\* st.session_state.analysis, that analysis was computed from the holdings
\* the session portfolio has now.
C30_AnalysisIsOfCurrentHoldings ==
    (op \in {"risk_drivers", "scenario_explorer", "report"} /\ out # Stopped)
        => analysis.stored /\ analysis.computed_from = holdings

(***************************************************************************)
(* Specification SpecAlias: a portfolio p, the mapping p.to_dict() returned *)
(* and the portfolio from_dict made of a mapping.  A Python list is an      *)
(* object: exported and restored name the list object that the mapping's    *)
(* 'holdings' entry and the restored portfolio's holdings attribute refer   *)
(* to: "p.holdings", the list of p (variable holdings), "fresh", the new    *)
(* list of data.get('holdings', []) (variable fresh), "" before the call.   *)
(***************************************************************************)
InitAlias ==
    /\ holdings = <<>>
    /\ current_prices = NoQuotes
    /\ NoMatrix /\ NoSeries /\ NoSample /\ NoGenerator /\ NoCall
    /\ page = "" /\ analysis = NoAnalysis /\ calls = <<>>
    /\ exported = "" /\ restored = "" /\ fresh = <<>>

\* the elements of the list object a reference names
Contents(ref) ==
    IF ref = "p.holdings" THEN holdings ELSE IF ref = "fresh" THEN fresh ELSE <<>>

\* d = p.to_dict(): d['holdings'] is self.holdings, the list object itself
ExportMapping ==
    /\ exported' = "p.holdings"
    /\ op' = "to_dict"
    /\ args' = <<>>
    /\ out' = Ok(to_dict(holdings))
    /\ UNCHANGED <<holdings, current_prices, prices, weights, returns, confidence_level,
                   simulated_values, current_value, numpy_build, np_random, memo,
                   page, analysis, calls, restored, fresh>>

\* Portfolio.from_dict(d) with the exported mapping d, or with a mapping
\* that has no 'holdings' key: portfolio.holdings is the list the mapping
\* holds, or the new empty list of the default
RestorePortfolio(from_exported) ==
    /\ from_exported => exported # ""
    /\ LET data == IF from_exported THEN to_dict(Contents(exported)) ELSE OtherMapping
       IN  /\ restored' = IF "holdings" \in DOMAIN data THEN exported ELSE "fresh"
           /\ fresh' = IF "holdings" \in DOMAIN data THEN fresh ELSE <<>>
           /\ op' = "from_dict"
           /\ args' = <<data>>
           /\ out' = Ok(from_dict(data))
    /\ UNCHANGED <<holdings, current_prices, prices, weights, returns, confidence_level,
                   simulated_values, current_value, numpy_build, np_random, memo,
                   page, analysis, calls, exported>>

\* add_holding on the restored portfolio: append to the list it refers to
RestoredAddHolding(symbol, shares, buy_price) ==
    /\ restored # ""
    /\ Len(Contents(restored)) < MaxHoldings
    /\ IF restored = "p.holdings"
       THEN /\ holdings' = Append(holdings, Holding(symbol, shares, buy_price))
            /\ UNCHANGED fresh
       ELSE /\ fresh' = Append(fresh, Holding(symbol, shares, buy_price))
            /\ UNCHANGED holdings
    /\ op' = "restored.add_holding"
    /\ args' = <<symbol, shares, buy_price>>
    /\ out' = Ok(<<>>)
    /\ UNCHANGED <<current_prices, prices, weights, returns, confidence_level,
                   simulated_values, current_value, numpy_build, np_random, memo,
                   page, analysis, calls, exported, restored>>

\* remove_holding on the restored portfolio
RestoredRemoveHolding(index) ==
    /\ restored # ""
    /\ LET list == Contents(restored)
           after == IF 0 <= index /\ index < Len(list)
                    THEN SubSeq(list, 1, index) \o SubSeq(list, index + 2, Len(list))
                    ELSE list
       IN  IF restored = "p.holdings"
           THEN holdings' = after /\ UNCHANGED fresh
           ELSE fresh' = after /\ UNCHANGED holdings
    /\ op' = "restored.remove_holding"
    /\ args' = <<index>>
    /\ out' = Ok(<<>>)
    /\ UNCHANGED <<current_prices, prices, weights, returns, confidence_level,
                   simulated_values, current_value, numpy_build, np_random, memo,
                   page, analysis, calls, exported, restored>>

Export == ExportMapping
Restore == \E from_exported \in BOOLEAN : RestorePortfolio(from_exported)
RestoredAdd == \E s \in Symbols, p \in BuyPriceLevels : RestoredAddHolding(s, 1, p)
RestoredRemove == \E i \in -1..MaxHoldings : RestoredRemoveHolding(i)

NextAlias ==
    \/ AddHolding \/ RemoveHolding \/ Export \/ Restore \/ RestoredAdd \/ RestoredRemove

SpecAlias == InitAlias /\ [][NextAlias]_vars

\* C26: the mapping returned by to_dict is not changed by a later
\* add_holding or remove_holding on the portfolio, and a portfolio made by
\* from_dict(p.to_dict()) is independent of p: a call of add_holding or
\* remove_holding on one leaves the holdings of the other as they were.
C26_OutputsShareNoState ==
    [][/\ op' \in {"add_holding", "remove_holding"}
            => /\ Contents(exported)' = Contents(exported)
               /\ Contents(restored)' = Contents(restored)
       /\ op' \in {"restored.add_holding", "restored.remove_holding"}
            => holdings' = holdings]_vars

====
